---- MODULE Spec2Model ----
(***************************************************************************)
(* State-machine model of the ChoiMEMO note session: the memo page         *)
(* (pages/MemoPage), the hooks useMemoOperations, useMemoEditing,          *)
(* useSwipeNavigation and useMemoData, and the Firestore repository        *)
(* functions of lib/database.                                              *)
(*                                                                         *)
(* React state is modelled by one variable per useState/useRef cell.  An   *)
(* async function is modelled by one action per await: the call up to the  *)
(* first await, and one action for each continuation, which runs with the  *)
(* values its closure captured when the function was called.               *)
(***************************************************************************)
EXTENDS Integers, Sequences, FiniteSets, TLC

\* ------------------------------------------------------------------------
\* Bounds of the model
\* ------------------------------------------------------------------------
\* number of notes the repository may hold when the session starts
MaxInitNotes == 2
\* ids the repository can assign during one run (initial notes included)
MaxId == 3
\* clear-direction timeouts that may be pending together
MaxClearTimers == 2
\* remote update calls that may be outstanding together
MaxInflight == 2
\* debounce timeouts that may be scheduled together
MaxTimers == 2
\* notes the repository holds at the start of an editing session
MaxEditNotes == 1
\* edits the user makes in one run
MaxEdits == 2
\* notes of the account that is deleted
MaxSagaNotes == 6

\* ------------------------------------------------------------------------
\* Program constants
\* ------------------------------------------------------------------------
MIN_SWIPE_DISTANCE == 50
VisibleCount == 5

NULL == "null"
\* the value of debounceTimerRef.current when it names no timeout
NoTimer == 0

\* contents are sequences of characters; " " is white space
Blank == <<>>
\* contents of the notes the repository holds at session start
Contents == {<<" ">>, <<"a">>}
\* contents a keystroke can produce in the editor
EditContents == {<<"a">>, <<"a", "b">>}
\* X coordinates of touch and mouse events
Xs == {0, 50, 101}

WhiteSpace == {" "}

RECURSIVE TrimStart(_)
TrimStart(s) ==
  IF s # <<>> /\ Head(s) \in WhiteSpace THEN TrimStart(Tail(s)) ELSE s

RECURSIVE TrimEnd(_)
TrimEnd(s) ==
  IF s # <<>> /\ s[Len(s)] \in WhiteSpace
    THEN TrimEnd(SubSeq(s, 1, Len(s) - 1))
    ELSE s

\* String.prototype.trim
Trim(s) == TrimEnd(TrimStart(s))

\* a Memo as the page holds it
Memo(id, content) == [id |-> id, content |-> content]

Ids(ms) == [k \in 1..Len(ms) |-> ms[k].id]

\* the updated_at fields of a list are kept as the order they put its
\* memos in; filter leaves the fields of the memos it keeps as they are
Without(order, id) == SelectSeq(order, LAMBDA x : x # id)

\* updated_at: new Date() on the memo with this id
StampedNow(order, id) == <<id>> \o Without(order, id)

\* ------------------------------------------------------------------------
\* The remote repository: the documents of users/{uid}/memos, kept in the
\* order of the query orderBy('updated_at', 'desc') (newest first).
\* ------------------------------------------------------------------------
\* getMemos
getMemos(r) == r

\* createMemo: addDoc stamps updated_at with the server time
createMemo(r, id, content) == <<Memo(id, content)>> \o r

\* deleteMemo: deleteDoc
deleteMemo(r, id) == SelectSeq(r, LAMBDA d : d.id # id)

Exists(r, id) == \E i \in 1..Len(r) : r[i].id = id

\* updateMemo: updateDoc rewrites content and stamps updated_at
updateMemo(r, id, content) ==
  <<Memo(id, content)>> \o SelectSeq(r, LAMBDA d : d.id # id)

\* the lists a repository can hold at session start, newest first
RECURSIVE InitialRemotes(_)
InitialRemotes(n) ==
  IF n = 0 THEN {<<>>}
  ELSE {<<Memo(n, c)>> \o r : c \in Contents, r \in InitialRemotes(n - 1)}

\* ------------------------------------------------------------------------
\* State
\* ------------------------------------------------------------------------
VARIABLES
  remote,           \* documents of the repository, newest first
  nextId,           \* the id the repository assigns next
  memos,            \* useState<Memo[]>([])
  byUpdatedAt,      \* the ids of memos, newest updated_at first
  currentIndex,     \* useState(0)
  loading,          \* useState(true)
  boot,             \* position of loadMemos
  fetchedMemos,     \* const fetchedMemos of loadMemos
  isOperating,      \* useMemoOperations: useState(false)
  op,               \* the create/delete call in flight and what it captured
  swipeDirection,   \* useState<'left' | 'right' | null>(null)
  clearTimers,      \* pending setTimeout(() => setSwipeDirection(null), 600)
  isMenuOpen,       \* useState(false)
  isMemoListOpen,   \* useState(false)
  touchStartX,      \* touchStartXRef
  mouseStartX,      \* mouseStartXRef
  isDragging,       \* isDraggingRef
  recorded,         \* history: what became of the last start event
  debounceTimerRef, \* useRef<Timeout | null>(null): a timer handle
  timers,           \* scheduled debounce timeouts: [handle, id, content]
  inflight,         \* remote update calls issued and not yet settled
  burst,            \* history: the current burst of edits; total: edits so far
  deleteProgress,   \* useState<number | null>(null)
  deleteStatusMessage, \* useState('')
  teardown,         \* position of handleDeleteAccount and what it holds
  location,         \* the route shown: navigate('/login', {replace: true})
  percents,         \* history: the arguments of setDeleteProgress, in order
  last              \* history: the handler or continuation that ran last

vars == <<remote, nextId, memos, byUpdatedAt, currentIndex, loading, boot,
          fetchedMemos,
          isOperating, op, swipeDirection, clearTimers, isMenuOpen,
          isMemoListOpen, touchStartX, mouseStartX, isDragging, recorded,
          debounceTimerRef, timers, inflight, burst, deleteProgress,
          deleteStatusMessage, teardown, location, percents, last>>

listVars == <<memos, byUpdatedAt>>
storeVars == <<memos, byUpdatedAt, currentIndex, isOperating, op>>
bootVars == <<loading, boot, fetchedMemos>>
feedbackVars == <<swipeDirection, clearTimers>>
overlayVars == <<isMenuOpen, isMemoListOpen>>
gestureVars == <<touchStartX, mouseStartX, isDragging, recorded>>
editVars == <<debounceTimerRef, timers, inflight, burst>>
repoVars == <<remote, nextId>>
teardownVars == <<deleteProgress, deleteStatusMessage, teardown, location,
                  percents>>

NoBurst == [edits |-> 0, id |-> 0, content |-> Blank, issued |-> 0,
            sent |-> <<>>, total |-> 0]

\* history, kept in the runs of SpecGestures: per kind of gesture,
\* "recorded" from a start event that was recorded to the next release,
\* "spent" after an ignored start event and after a release
NoGesture == [touch |-> "none", mouse |-> "none"]

NoOp == [kind |-> "none", memos |-> <<>>, byUpdatedAt |-> <<>>, index |-> 0,
         await |-> "none"]

\* deleteProgress === null: no account deletion is running
NoProgress == -1

\* a status message: its text and the numbers it shows
Message(text, i, n) == [text |-> text, i |-> i, n |-> n]
NoMessage == Message("", 0, 0)

\* history: what the earlier runs of handleDeleteAccount left behind: the
\* ids the last run that failed past its listing had listed, and those of
\* them it had not deleted
NoEarlier == [ran |-> FALSE, listed |-> <<>>, left |-> <<>>]

\* handleDeleteAccount is not running
NoTeardown == [await |-> "none", allMemos |-> <<>>, i |-> 0,
               error |-> "none", alert |-> "none", earlier |-> NoEarlier]

\* the page as it is mounted: every state and ref has its initial value
SessionStart ==
  /\ memos = <<>>
  /\ byUpdatedAt = <<>>
  /\ currentIndex = 0
  /\ loading = TRUE
  /\ boot = "mount"
  /\ fetchedMemos = <<>>
  /\ isOperating = FALSE
  /\ op = NoOp
  /\ swipeDirection = NULL
  /\ clearTimers = 0
  /\ isMenuOpen = FALSE
  /\ isMemoListOpen = FALSE
  /\ touchStartX = 0
  /\ mouseStartX = 0
  /\ isDragging = FALSE
  /\ recorded = NoGesture
  /\ debounceTimerRef = NoTimer
  /\ timers = {}
  /\ inflight = <<>>
  /\ burst = NoBurst
  /\ deleteProgress = NoProgress
  /\ deleteStatusMessage = NoMessage
  /\ teardown = NoTeardown
  /\ location = "/"
  /\ percents = <<>>
  /\ last = <<"init", "done">>

Init ==
  /\ remote \in UNION {InitialRemotes(n) : n \in 0..MaxInitNotes}
  /\ nextId = Len(remote) + 1
  /\ SessionStart

\* const currentMemo = memos[currentIndex]
HasCurrentMemo == currentIndex < Len(memos)
currentMemo == memos[currentIndex + 1]

\* the page is mounted on the route "/"; it renders its handlers only past
\* the two early returns, and the delete-progress overlay covers them while
\* deleteProgress !== null
PageShown ==
  /\ location = "/"
  /\ ~loading /\ HasCurrentMemo /\ deleteProgress = NoProgress

\* ------------------------------------------------------------------------
\* Bootstrap: the loadMemos effect
\* ------------------------------------------------------------------------
\* loadMemos up to await getMemos
LoadMemos ==
  /\ boot = "mount"
  /\ boot' = "getMemos"
  /\ loading' = TRUE
  /\ last' = <<"loadMemos", "called">>
  /\ UNCHANGED <<teardownVars,
                 repoVars, storeVars, fetchedMemos, feedbackVars,
                 overlayVars, gestureVars, editVars>>

\* what loadMemos does with the fetched list: create a blank memo or not
NeedsBlankMemo(fetched) ==
  IF Len(fetched) = 0 THEN TRUE ELSE Trim(fetched[1].content) # Blank

\* getMemos settles; loadMemos runs to its next await or to its end
LoadMemosFetched(ok) ==
  /\ boot = "getMemos"
  /\ IF ~ok
       THEN /\ boot' = "done"
            /\ loading' = FALSE
            /\ last' = <<"loadMemos", "getMemos failed">>
            /\ UNCHANGED <<fetchedMemos, listVars>>
       ELSE IF NeedsBlankMemo(getMemos(remote))
         THEN /\ boot' = "createMemo"
              /\ fetchedMemos' = getMemos(remote)
              /\ last' = <<"loadMemos", "fetched">>
              /\ UNCHANGED <<loading, listVars>>
         ELSE /\ boot' = "done"
              /\ fetchedMemos' = <<>>
              /\ memos' = getMemos(remote)
              /\ byUpdatedAt' = Ids(getMemos(remote))
              /\ loading' = FALSE
              /\ last' = <<"loadMemos", "kept">>
  /\ UNCHANGED <<teardownVars,
                 repoVars, currentIndex, isOperating, op, feedbackVars,
                 overlayVars, gestureVars, editVars>>

\* createMemo of loadMemos settles
LoadMemosCreated(ok) ==
  /\ boot = "createMemo"
  /\ boot' = "done"
  /\ loading' = FALSE
  /\ IF ok
       THEN /\ nextId <= MaxId
            /\ remote' = createMemo(remote, nextId, Blank)
            /\ nextId' = nextId + 1
            /\ memos' = <<Memo(nextId, Blank)>> \o fetchedMemos
            /\ byUpdatedAt' = <<nextId>> \o Ids(fetchedMemos)
            /\ last' = <<"loadMemos", "created">>
       ELSE /\ last' = <<"loadMemos", "createMemo failed">>
            /\ UNCHANGED <<repoVars, listVars>>
  /\ fetchedMemos' = <<>>
  /\ UNCHANGED <<teardownVars,
                 currentIndex, isOperating, op, feedbackVars, overlayVars,
                 gestureVars, editVars>>

Bootstrap ==
  \/ LoadMemos
  \/ \E ok \in BOOLEAN : LoadMemosFetched(ok)
  \/ \E ok \in BOOLEAN : LoadMemosCreated(ok)

\* ------------------------------------------------------------------------
\* Note session store: useMemoOperations
\* ------------------------------------------------------------------------
\* mutation: the first memo is removed whatever the index
FilterOutFirst(ms, index) == Tail(ms)

\* memos.filter((_, i) => i !== index), index counted from 0
FilterOut(ms, index) ==
  [i \in 1..(Len(ms) - 1) |-> IF i <= index THEN ms[i] ELSE ms[i + 1]]

\* mutation: the emptied list is never detected
ListEmptiedNever(newMemos) == FALSE

\* if (newMemos.length === 0): the list was emptied, a blank memo replaces it
ListEmptied(newMemos) == Len(newMemos) = 0

\* mutation: the index is left where it was
IndexAfterDeleteKept(index) == currentIndex

\* setCurrentIndex(0) after a delete
IndexAfterDelete(index) == 0

\* mutation: the captured list is kept when the list was emptied
ReplacementListKeepsOld(newMemoId) == op.memos

\* setMemos([{ id: newMemoId, content: '' }]) of deleteMemoByIndex
ReplacementList(newMemoId) == <<Memo(newMemoId, Blank)>>

\* mutation: the new memo is put behind the held ones
PrependedAtEnd(newMemo, ms) == ms \o <<newMemo>>

\* setMemos([newMemo, ...memos]) of createNewMemo
Prepended(newMemo, ms) == <<newMemo>> \o ms

\* the items MemoList renders: memos.slice(0, visibleCount)
VisibleIndexes(ms) ==
  {i \in 0..(VisibleCount - 1) : i < Len(ms)}

\* mutation: deleteMemoByIndex without the isOperating guard
deleteMemoByIndexUnguarded(index) ==
  /\ index \in 0..(Len(memos) - 1)
  /\ isOperating' = TRUE
  /\ op' = [kind |-> "delete", memos |-> memos,
                      byUpdatedAt |-> byUpdatedAt, index |-> index,
            await |-> "deleteMemo"]
  /\ last' = <<"deleteMemoByIndex", "called">>
  /\ UNCHANGED <<teardownVars,
                 repoVars, listVars, currentIndex, bootVars, feedbackVars,
                 overlayVars, gestureVars, editVars>>

\* deleteMemoByIndex(index) up to await deleteMemo
deleteMemoByIndex(index) ==
  /\ index \in 0..(Len(memos) - 1)
  /\ IF isOperating
       THEN /\ last' = <<"deleteMemoByIndex", "rejected">>
            /\ UNCHANGED <<isOperating, op>>
       ELSE /\ isOperating' = TRUE
            /\ op' = [kind |-> "delete", memos |-> memos,
                      byUpdatedAt |-> byUpdatedAt, index |-> index,
                      await |-> "deleteMemo"]
            /\ last' = <<"deleteMemoByIndex", "called">>
  /\ UNCHANGED <<teardownVars,
                 repoVars, listVars, currentIndex, bootVars, feedbackVars,
                 overlayVars, gestureVars, editVars>>

\* the trash button of the header: onDelete={() => deleteMemoByIndex(currentIndex)}
HeaderDelete ==
  /\ PageShown
  /\ deleteMemoByIndex(currentIndex)

\* the trash button of a list item: onMemoDelete(index)
MemoListDelete ==
  /\ PageShown
  /\ isMemoListOpen
  /\ \E index \in VisibleIndexes(memos) : deleteMemoByIndex(index)

\* deleteMemo settles; deleteMemoByIndex runs to its next await or its end
DeleteSettled(ok) ==
  /\ op.kind = "delete"
  /\ op.await = "deleteMemo"
  /\ IF ~ok
       THEN /\ isOperating' = FALSE
            /\ op' = NoOp
            /\ last' = <<"deleteMemoByIndex", "deleteMemo failed">>
            /\ UNCHANGED <<repoVars, listVars, currentIndex>>
       ELSE /\ remote' = deleteMemo(remote, op.memos[op.index + 1].id)
            /\ UNCHANGED nextId
            /\ IF ListEmptied(FilterOut(op.memos, op.index))
                 THEN /\ op' = [op EXCEPT !.await = "createMemo"]
                      /\ last' = <<"deleteMemoByIndex", "deleted last">>
                      /\ UNCHANGED <<isOperating, listVars, currentIndex>>
                 ELSE /\ memos' = FilterOut(op.memos, op.index)
                      /\ byUpdatedAt' =
                           Without(op.byUpdatedAt,
                                   op.memos[op.index + 1].id)
                      /\ currentIndex' = IndexAfterDelete(op.index)
                      /\ isOperating' = FALSE
                      /\ op' = NoOp
                      /\ last' = <<"deleteMemoByIndex", "done">>
  /\ UNCHANGED <<teardownVars,
                 bootVars, feedbackVars, overlayVars, gestureVars, editVars>>

\* mutation: the emptied list is set before createMemo has succeeded
DeleteCreateSettledEmptiesList(ok) ==
  /\ op.kind = "delete"
  /\ op.await = "createMemo"
  /\ isOperating' = FALSE
  /\ op' = NoOp
  /\ IF ok
       THEN /\ nextId <= MaxId
            /\ remote' = createMemo(remote, nextId, Blank)
            /\ nextId' = nextId + 1
            /\ memos' = ReplacementList(nextId)
            /\ byUpdatedAt' = <<nextId>>
            /\ currentIndex' = 0
            /\ last' = <<"deleteMemoByIndex", "replaced">>
       ELSE /\ last' = <<"deleteMemoByIndex", "createMemo failed">>
            /\ memos' = FilterOut(op.memos, op.index)
            /\ byUpdatedAt' = Without(op.byUpdatedAt,
                                      op.memos[op.index + 1].id)
            /\ UNCHANGED <<repoVars, currentIndex>>
  /\ UNCHANGED <<teardownVars,
                 bootVars, feedbackVars, overlayVars, gestureVars, editVars>>

\* createMemo of deleteMemoByIndex settles
DeleteCreateSettled(ok) ==
  /\ op.kind = "delete"
  /\ op.await = "createMemo"
  /\ isOperating' = FALSE
  /\ op' = NoOp
  /\ IF ok
       THEN /\ nextId <= MaxId
            /\ remote' = createMemo(remote, nextId, Blank)
            /\ nextId' = nextId + 1
            /\ memos' = ReplacementList(nextId)
            /\ byUpdatedAt' = <<nextId>>
            /\ currentIndex' = 0
            /\ last' = <<"deleteMemoByIndex", "replaced">>
       ELSE /\ last' = <<"deleteMemoByIndex", "createMemo failed">>
            /\ UNCHANGED <<repoVars, listVars, currentIndex>>
  /\ UNCHANGED <<teardownVars,
                 bootVars, feedbackVars, overlayVars, gestureVars, editVars>>

\* createNewMemo up to await createMemo (the floating button)
createNewMemo ==
  /\ PageShown
  /\ IF isOperating
       THEN /\ last' = <<"createNewMemo", "rejected">>
            /\ UNCHANGED <<isOperating, op>>
       ELSE /\ isOperating' = TRUE
            /\ op' = [kind |-> "create", memos |-> memos,
                      byUpdatedAt |-> byUpdatedAt, index |-> 0,
                      await |-> "createMemo"]
            /\ last' = <<"createNewMemo", "called">>
  /\ UNCHANGED <<teardownVars,
                 repoVars, listVars, currentIndex, bootVars, feedbackVars,
                 overlayVars, gestureVars, editVars>>

\* mutation: createNewMemo without its finally block
CreateSettledNoFinally(ok) ==
  /\ op.kind = "create"
  /\ IF ok
       THEN /\ nextId <= MaxId
            /\ remote' = createMemo(remote, nextId, Blank)
            /\ nextId' = nextId + 1
            /\ memos' = Prepended(Memo(nextId, Blank), op.memos)
            /\ byUpdatedAt' = <<nextId>> \o op.byUpdatedAt
            /\ currentIndex' = 0
            /\ isOperating' = FALSE
            /\ op' = NoOp
            /\ last' = <<"createNewMemo", "done">>
       ELSE /\ last' = <<"createNewMemo", "createMemo failed">>
            /\ op' = NoOp
            /\ UNCHANGED <<repoVars, listVars, currentIndex, isOperating>>
  /\ UNCHANGED <<teardownVars,
                 bootVars, feedbackVars, overlayVars, gestureVars, editVars>>

\* createMemo of createNewMemo settles
CreateSettled(ok) ==
  /\ op.kind = "create"
  /\ isOperating' = FALSE
  /\ op' = NoOp
  /\ IF ok
       THEN /\ nextId <= MaxId
            /\ remote' = createMemo(remote, nextId, Blank)
            /\ nextId' = nextId + 1
            /\ memos' = Prepended(Memo(nextId, Blank), op.memos)
            /\ byUpdatedAt' = <<nextId>> \o op.byUpdatedAt
            /\ currentIndex' = 0
            /\ last' = <<"createNewMemo", "done">>
       ELSE /\ last' = <<"createNewMemo", "createMemo failed">>
            /\ UNCHANGED <<repoVars, listVars, currentIndex>>
  /\ UNCHANGED <<teardownVars,
                 bootVars, feedbackVars, overlayVars, gestureVars, editVars>>

Store ==
  \/ HeaderDelete
  \/ MemoListDelete
  \/ \E ok \in BOOLEAN : DeleteSettled(ok)
  \/ \E ok \in BOOLEAN : DeleteCreateSettled(ok)
  \/ createNewMemo
  \/ \E ok \in BOOLEAN : CreateSettled(ok)

\* ------------------------------------------------------------------------
\* Navigation controller: handleIndexChange and useSwipeNavigation
\* ------------------------------------------------------------------------
\* disabled: isMenuOpen || isMemoListOpen
Disabled == isMenuOpen \/ isMemoListOpen

\* the value of "no call of onIndexChange"
NoMove == -1

\* mutation: the two directions are exchanged
DirectionOfExchanged(ci, newIndex) ==
  IF newIndex > ci THEN "left"
  ELSE IF newIndex < ci THEN "right"
  ELSE swipeDirection

\* the direction handleIndexChange records for a move from ci to newIndex
DirectionOf(ci, newIndex) ==
  IF newIndex > ci THEN "right"
  ELSE IF newIndex < ci THEN "left"
  ELSE swipeDirection

\* mutation: goToPrevious without its disabled test
goToPreviousUngated(ci, disabled) ==
  IF ci > 0 THEN ci - 1 ELSE NoMove

\* goToPrevious: the index it passes to onIndexChange, or NoMove
goToPrevious(ci, disabled) ==
  IF disabled THEN NoMove
  ELSE IF ci > 0 THEN ci - 1 ELSE NoMove

\* mutation: goToNext wraps around past the last index
goToNextWraps(ci, totalCount, disabled) ==
  IF disabled THEN NoMove
  ELSE IF totalCount > 0 THEN (ci + 1) % totalCount ELSE NoMove

\* goToNext: the index it passes to onIndexChange, or NoMove
goToNext(ci, totalCount, disabled) ==
  IF disabled THEN NoMove
  ELSE IF ci < totalCount - 1 THEN ci + 1 ELSE NoMove

\* mutation: a displacement of exactly MIN_SWIPE_DISTANCE counts as a swipe
SwipeTargetInclusive(diffX, ci, totalCount, disabled) ==
  IF diffX >= MIN_SWIPE_DISTANCE THEN goToPrevious(ci, disabled)
  ELSE IF diffX <= -MIN_SWIPE_DISTANCE
         THEN goToNext(ci, totalCount, disabled)
  ELSE NoMove

\* the threshold test of handleTouchEnd and handleMouseUp
SwipeTarget(diffX, ci, totalCount, disabled) ==
  IF diffX > MIN_SWIPE_DISTANCE THEN goToPrevious(ci, disabled)
  ELSE IF diffX < -MIN_SWIPE_DISTANCE THEN goToNext(ci, totalCount, disabled)
  ELSE NoMove

\* handleTouchEnd: the index passed to onIndexChange, or NoMove
handleTouchEndTarget(endX, startX, ci, totalCount, disabled) ==
  IF disabled THEN NoMove
  ELSE SwipeTarget(endX - startX, ci, totalCount, disabled)

\* handleMouseUp: the index passed to onIndexChange, or NoMove
handleMouseUpTarget(endX, startX, dragging, ci, totalCount, disabled) ==
  IF disabled \/ ~dragging THEN NoMove
  ELSE SwipeTarget(endX - startX, ci, totalCount, disabled)

\* handleKeyDown: the index passed to onIndexChange, or NoMove
handleKeyDownTarget(key, ci, totalCount, disabled) ==
  IF disabled THEN NoMove
  ELSE IF key = "ArrowLeft" THEN goToPrevious(ci, disabled)
  ELSE IF key = "ArrowRight" THEN goToNext(ci, totalCount, disabled)
  ELSE NoMove

\* history: the move a displacement or a key asks for
Requested(diffX) ==
  IF diffX > MIN_SWIPE_DISTANCE THEN "previous"
  ELSE IF diffX < -MIN_SWIPE_DISTANCE THEN "next"
  ELSE "none"

RequestedByKey(key) == IF key = "ArrowLeft" THEN "previous" ELSE "next"

\* a handler that calls onIndexChange(target), or does nothing on NoMove;
\* handleIndexChange sets the direction, the index and the clear timeout
Navigate(target, event, request) ==
  /\ IF target = NoMove
       THEN /\ last' = <<event, request, "ignored">>
            /\ UNCHANGED <<currentIndex, feedbackVars>>
       ELSE /\ clearTimers < MaxClearTimers
            /\ swipeDirection' = DirectionOf(currentIndex, target)
            /\ currentIndex' = target
            /\ clearTimers' = clearTimers + 1
            /\ last' = <<event, request, "moved">>
  /\ UNCHANGED <<teardownVars,
                 repoVars, listVars, isOperating, op, bootVars, overlayVars,
                 editVars>>

\* setTimeout(() => setSwipeDirection(null), 600) fires
ClearDirection ==
  /\ clearTimers > 0
  /\ clearTimers' = clearTimers - 1
  /\ swipeDirection' = NULL
  /\ last' = <<"clearDirection", "done">>
  /\ UNCHANGED <<teardownVars,
                 repoVars, storeVars, bootVars, overlayVars, gestureVars,
                 editVars>>

\* the arrow buttons; a button is disabled when canGoPrevious / canGoNext
\* is false and rendered only when memos.length > 1
ArrowPrevious ==
  /\ PageShown /\ Len(memos) > 1 /\ currentIndex > 0
  /\ Navigate(goToPrevious(currentIndex, Disabled), "arrowPrevious",
              "previous")
  /\ UNCHANGED gestureVars

ArrowNext ==
  /\ PageShown /\ Len(memos) > 1 /\ currentIndex < Len(memos) - 1
  /\ Navigate(goToNext(currentIndex, Len(memos), Disabled), "arrowNext",
              "next")
  /\ UNCHANGED gestureVars

\* window keydown listener
handleKeyDown(key) ==
  /\ boot = "done"
  /\ Navigate(handleKeyDownTarget(key, currentIndex, Len(memos), Disabled),
              key, RequestedByKey(key))
  /\ UNCHANGED gestureVars

handleTouchStart(x) ==
  /\ PageShown
  /\ touchStartX' = (IF Disabled THEN touchStartX ELSE x)
  /\ last' = <<"touchStart", IF Disabled THEN "ignored" ELSE "done">>
  /\ UNCHANGED <<teardownVars,
                 repoVars, storeVars, bootVars, feedbackVars, overlayVars,
                 mouseStartX, isDragging, editVars>>

handleTouchEnd(x) ==
  /\ PageShown
  /\ Navigate(handleTouchEndTarget(x, touchStartX, currentIndex, Len(memos),
                                   Disabled),
              "touchEnd", Requested(x - touchStartX))
  /\ UNCHANGED <<touchStartX, mouseStartX, isDragging>>

handleMouseDown(x) ==
  /\ PageShown
  /\ IF Disabled
       THEN /\ last' = <<"mouseDown", "ignored">>
            /\ UNCHANGED <<mouseStartX, isDragging>>
       ELSE /\ isDragging' = TRUE
            /\ mouseStartX' = x
            /\ last' = <<"mouseDown", "done">>
  /\ UNCHANGED <<teardownVars,
                 repoVars, storeVars, bootVars, feedbackVars, overlayVars,
                 touchStartX, editVars>>

handleMouseUp(x) ==
  /\ PageShown
  /\ Navigate(handleMouseUpTarget(x, mouseStartX, isDragging, currentIndex,
                                  Len(memos), Disabled),
              "mouseUp", Requested(x - mouseStartX))
  /\ isDragging' = (IF Disabled \/ ~isDragging THEN isDragging ELSE FALSE)
  /\ UNCHANGED <<touchStartX, mouseStartX>>

\* mutation: the mouse leaves and the drag stays in progress
handleMouseLeaveKeepsDrag ==
  /\ PageShown
  /\ last' = <<"mouseLeave", "done">>
  /\ UNCHANGED <<teardownVars,
                 repoVars, storeVars, bootVars, feedbackVars, overlayVars,
                 gestureVars, editVars>>

handleMouseLeave ==
  /\ PageShown
  /\ isDragging' = FALSE
  /\ last' = <<"mouseLeave", "done">>
  /\ UNCHANGED <<teardownVars,
                 repoVars, storeVars, bootVars, feedbackVars, overlayVars,
                 touchStartX, mouseStartX, recorded, editVars>>

Keys == {"ArrowLeft", "ArrowRight"}

Navigation ==
  \/ ArrowPrevious
  \/ ArrowNext
  \/ \E key \in Keys : handleKeyDown(key)
  \/ ClearDirection

Gestures ==
  \/ \E x \in Xs : handleTouchStart(x) /\ UNCHANGED recorded
  \/ \E x \in Xs : handleTouchEnd(x) /\ UNCHANGED recorded
  \/ \E x \in Xs : handleMouseDown(x) /\ UNCHANGED recorded
  \/ \E x \in Xs : handleMouseUp(x) /\ UNCHANGED recorded
  \/ handleMouseLeave

\* history: a start event is recorded unless the handler ignored it
StartEvent(kind) ==
  recorded' = [recorded EXCEPT
                 ![kind] = IF Disabled THEN "spent" ELSE "recorded"]

\* history: a release uses up the start event of its kind
ReleaseEvent(kind) == recorded' = [recorded EXCEPT ![kind] = "spent"]

\* the gesture handlers, with the history of the start events kept
GesturesRecorded ==
  \/ \E x \in Xs : handleTouchStart(x) /\ StartEvent("touch")
  \/ \E x \in Xs : handleTouchEnd(x) /\ ReleaseEvent("touch")
  \/ \E x \in Xs : handleMouseDown(x) /\ StartEvent("mouse")
  \/ \E x \in Xs : handleMouseUp(x) /\ ReleaseEvent("mouse")
  \/ handleMouseLeave

\* ------------------------------------------------------------------------
\* Overlays: the menu and the memo list
\* ------------------------------------------------------------------------
handleMenuClick ==
  /\ PageShown
  /\ isMenuOpen' = TRUE
  /\ last' = <<"menuClick", "done">>
  /\ UNCHANGED <<teardownVars,
                 repoVars, storeVars, bootVars, feedbackVars,
                 isMemoListOpen, gestureVars, editVars>>

handleMenuClose ==
  /\ PageShown /\ isMenuOpen
  /\ isMenuOpen' = FALSE
  /\ last' = <<"menuClose", "done">>
  /\ UNCHANGED <<teardownVars,
                 repoVars, storeVars, bootVars, feedbackVars,
                 isMemoListOpen, gestureVars, editVars>>

handleMemoList ==
  /\ PageShown /\ isMenuOpen
  /\ isMenuOpen' = FALSE
  /\ isMemoListOpen' = TRUE
  /\ last' = <<"memoList", "done">>
  /\ UNCHANGED <<teardownVars,
                 repoVars, storeVars, bootVars, feedbackVars, gestureVars,
                 editVars>>

handleMemoListClose ==
  /\ PageShown /\ isMemoListOpen
  /\ isMemoListOpen' = FALSE
  /\ last' = <<"memoListClose", "done">>
  /\ UNCHANGED <<teardownVars,
                 repoVars, storeVars, bootVars, feedbackVars, isMenuOpen,
                 gestureVars, editVars>>

\* onMemoClick(index) followed by onClose()
handleMemoListItemClick(index) ==
  /\ PageShown /\ isMemoListOpen
  /\ index \in VisibleIndexes(memos)
  /\ currentIndex' = index
  /\ isMemoListOpen' = FALSE
  /\ last' = <<"memoListItemClick", "done">>
  /\ UNCHANGED <<teardownVars,
                 repoVars, listVars, isOperating, op, bootVars, feedbackVars,
                 isMenuOpen, gestureVars, editVars>>

Overlays ==
  \/ handleMenuClick
  \/ handleMenuClose
  \/ handleMemoList
  \/ handleMemoListClose
  \/ \E index \in 0..(VisibleCount - 1) : handleMemoListItemClick(index)

\* ------------------------------------------------------------------------
\* Debounced persistence writer: useMemoEditing
\* ------------------------------------------------------------------------
\* mutation: the previous timeout is not cancelled
clearTimeoutNothing(ts, handle) == ts

\* clearTimeout(handle)
clearTimeout(ts, handle) == {t \in ts : t.handle # handle}

\* the handle setTimeout returns: one that names no scheduled timeout
NewHandle(ts) ==
  CHOOSE h \in 1..(MaxTimers + 1) :
    /\ \A t \in ts : t.handle # h
    /\ \A g \in 1..(h - 1) : \E t \in ts : t.handle = g

\* mutation: the first memo gets the new content whatever the index
WithContentFirst(ms, index, newContent) ==
  [i \in 1..Len(ms) |->
     IF i = 1 THEN Memo(ms[i].id, newContent) ELSE ms[i]]

\* prevMemos.map: the memo at index gets the new content
WithContent(ms, index, newContent) ==
  [i \in 1..Len(ms) |->
     IF i = index + 1 THEN Memo(ms[i].id, newContent) ELSE ms[i]]

\* mutation: the update carries no content
TimerCallEmptyContent(t) == [id |-> t.id, content |-> Blank]

\* mutation: the update is addressed to the memo active at fire time
TimerCallActiveNote(t) ==
  [id |-> memos[currentIndex + 1].id, content |-> t.content]

\* the timer callback's call updateMemo(userId, currentMemo.id, {content})
TimerCall(t) == [id |-> t.id, content |-> t.content]

\* the timeout the ref names is still scheduled
TimerPending == \E t \in timers : t.handle = debounceTimerRef

Min(a, b) == IF a < b THEN a ELSE b

\* handleMemoChange(newContent)
handleMemoChange(newContent) ==
  /\ PageShown
  /\ burst.total < MaxEdits
  /\ LET cleared == IF debounceTimerRef # NoTimer
                      THEN clearTimeout(timers, debounceTimerRef)
                      ELSE timers
         handle == NewHandle(cleared)
     IN /\ Cardinality(cleared) < MaxTimers
        /\ memos' = WithContent(memos, currentIndex, newContent)
        /\ byUpdatedAt' = StampedNow(byUpdatedAt, currentMemo.id)
        /\ timers' = cleared \cup {[handle |-> handle, id |-> currentMemo.id,
                                    content |-> newContent]}
        /\ debounceTimerRef' = handle
  /\ burst' = IF TimerPending /\ burst.id = currentMemo.id
                THEN [burst EXCEPT !.edits = burst.edits + 1,
                                   !.content = newContent,
                                   !.total = burst.total + 1]
                ELSE [edits |-> 1, id |-> currentMemo.id,
                      content |-> newContent, issued |-> 0, sent |-> <<>>,
                      total |-> burst.total + 1]
  /\ last' = <<"memoChange", "done">>
  /\ UNCHANGED <<teardownVars,
                 repoVars, currentIndex, isOperating, op, bootVars,
                 feedbackVars, overlayVars, gestureVars, inflight>>

\* a debounce timeout fires: the callback up to await updateMemo
DebounceTimerFires ==
  /\ Len(inflight) < MaxInflight
  /\ \E t \in timers :
       /\ timers' = timers \ {t}
       /\ inflight' = Append(inflight, TimerCall(t))
       /\ burst' = [burst EXCEPT !.issued = Min(burst.issued + 1, 2),
                                 !.sent = <<TimerCall(t).id,
                                            TimerCall(t).content>>]
  /\ last' = <<"debounceTimer", "fired">>
  /\ UNCHANGED <<teardownVars,
                 repoVars, storeVars, bootVars, feedbackVars, overlayVars,
                 gestureVars, debounceTimerRef>>

\* mutation: a rejected update is issued again
UpdateSettledRetries(ok) ==
  /\ inflight # <<>>
  /\ ok => Exists(remote, Head(inflight).id)
  /\ IF ok
       THEN /\ inflight' = Tail(inflight)
            /\ remote' = updateMemo(remote, Head(inflight).id,
                                    Head(inflight).content)
            /\ last' = <<"updateMemo", "saved">>
       ELSE /\ inflight' = Append(Tail(inflight), Head(inflight))
            /\ remote' = remote
            /\ last' = <<"updateMemo", "failed">>
  /\ UNCHANGED <<teardownVars,
                 nextId, storeVars, bootVars, feedbackVars, overlayVars,
                 gestureVars, debounceTimerRef, timers, burst>>

\* updateMemo settles; updateDoc rejects when the document is gone
UpdateSettled(ok) ==
  /\ inflight # <<>>
  /\ ok => Exists(remote, Head(inflight).id)
  /\ inflight' = Tail(inflight)
  /\ IF ok
       THEN /\ remote' = updateMemo(remote, Head(inflight).id,
                                    Head(inflight).content)
            /\ last' = <<"updateMemo", "saved">>
       ELSE /\ remote' = remote
            /\ last' = <<"updateMemo", "failed">>
  /\ UNCHANGED <<teardownVars,
                 nextId, storeVars, bootVars, feedbackVars, overlayVars,
                 gestureVars, debounceTimerRef, timers, burst>>

Editing ==
  \/ \E newContent \in EditContents : handleMemoChange(newContent)
  \/ DebounceTimerFires
  \/ \E ok \in BOOLEAN : UpdateSettled(ok)

\* mutation: the cleanup leaves the scheduled timeout alone
unmountCleanupNothing(ts, ref) == ts

\* the cleanup of the unmount effect:
\* if (debounceTimerRef.current) clearTimeout(debounceTimerRef.current)
unmountCleanup(ts, ref) == IF ref # NoTimer THEN clearTimeout(ts, ref) ELSE ts

\* the page is unmounted (logout, redirect, leaving the route): the session
\* ends and the effect cleanup runs
Unmount ==
  /\ location = "/"
  /\ location' = "/login"
  /\ timers' = unmountCleanup(timers, debounceTimerRef)
  /\ last' = <<"unmount", "done">>
  /\ UNCHANGED <<deleteProgress, deleteStatusMessage, teardown, percents,
                 repoVars, storeVars, bootVars, feedbackVars, overlayVars,
                 gestureVars, debounceTimerRef, inflight, burst>>

Arrows ==
  \/ ArrowPrevious
  \/ ArrowNext
  \/ ClearDirection

\* ------------------------------------------------------------------------
\* Account deletion: handleDeleteAccount
\* ------------------------------------------------------------------------
\* mutation: the quotient is truncated, as Math.floor does
MathFloor(num, den) == num \div den

\* Math.round(num / den) for num >= 0 and den > 0: halves round up
MathRound(num, den) == (2 * num + den) \div (2 * den)

\* mutation: the share of deleted memos is not scaled to the 10..80 range
ProgressAfterUnscaled(i, n) == 10 + (i + 1) * 70

\* const progress = 10 + Math.round(((i + 1) / allMemos.length) * 70)
ProgressAfter(i, n) == 10 + MathRound((i + 1) * 70, n)

\* mutation: the loop body runs once more than there are memos
LoopContinuesOnceMore(i, n) == i <= n

\* the loop condition i < allMemos.length
LoopContinues(i, n) == i < n

\* error.code of what the calls reject with: getMemos and deleteMemo throw
\* new Error(message), which has no code; deleteUser rejects with an auth code
NoCode == "undefined"
RequiresRecentLogin == "auth/requires-recent-login"
DeleteUserCodes == {RequiresRecentLogin, "auth/network-request-failed"}

\* mutation: every failure gets the generic alert
AlertForGeneric(code) == "generic"

\* the alert the catch block shows for error.code
AlertFor(code) ==
  IF code = RequiresRecentLogin THEN "reauth" ELSE "generic"

\* history: what the run that ends now leaves behind
Leaves(t) ==
  IF t.await = "getMemos" THEN t.earlier
  ELSE LET n == Len(t.allMemos)
           done == IF t.await = "deleteMemo" THEN t.i ELSE n
       IN [ran |-> TRUE, listed |-> Ids(t.allMemos),
           left |-> Ids(SubSeq(t.allMemos, done + 1, n))]

\* the catch block of handleDeleteAccount
TeardownCaught(code) ==
  /\ deleteProgress' = NoProgress
  /\ deleteStatusMessage' = NoMessage
  /\ teardown' = [NoTeardown EXCEPT !.error = code, !.alert = AlertFor(code),
                                    !.earlier = Leaves(teardown)]
  /\ last' = <<"handleDeleteAccount", "failed">>
  /\ UNCHANGED <<location, percents>>

\* the steps from setDeleteProgress(90) to await deleteUser(user)
TeardownDeletesUser(all, set) ==
  /\ deleteProgress' = 90
  /\ deleteStatusMessage' = Message("deleting account", 0, 0)
  /\ percents' = percents \o set \o <<90>>
  /\ teardown' = [teardown EXCEPT !.await = "deleteUser", !.allMemos = all]

\* the menu item: handleDeleteAccount up to await getMemos
handleDeleteAccount(confirmed) ==
  /\ PageShown /\ isMenuOpen
  /\ teardown.await = "none"
  /\ IF ~confirmed
       THEN /\ last' = <<"handleDeleteAccount", "cancelled">>
            /\ UNCHANGED teardownVars
       ELSE /\ deleteProgress' = 10
            /\ deleteStatusMessage' = Message("checking memos", 0, 0)
            /\ percents' = <<0, 10>>
            /\ teardown' = [NoTeardown EXCEPT !.await = "getMemos",
                                              !.earlier = teardown.earlier]
            /\ last' = <<"handleDeleteAccount", "called">>
            /\ UNCHANGED location
  /\ UNCHANGED <<repoVars, storeVars, bootVars, feedbackVars, overlayVars,
                 gestureVars, editVars>>

\* getMemos settles; the loop starts, or is skipped for an empty list
TeardownListed(ok) ==
  /\ teardown.await = "getMemos"
  /\ IF ~ok
       THEN TeardownCaught(NoCode)
       ELSE LET allMemos == getMemos(remote)
            IN IF LoopContinues(0, Len(allMemos))
                 THEN /\ deleteStatusMessage' =
                           Message("deleting memos", 1, Len(allMemos))
                      /\ teardown' = [teardown EXCEPT !.await = "deleteMemo",
                                                      !.allMemos = allMemos,
                                                      !.i = 0]
                      /\ last' = <<"handleDeleteAccount", "listed">>
                      /\ UNCHANGED <<deleteProgress, location, percents>>
                 ELSE /\ TeardownDeletesUser(allMemos, <<>>)
                      /\ last' = <<"handleDeleteAccount", "nothing to delete">>
                      /\ UNCHANGED location
  /\ UNCHANGED <<repoVars, storeVars, bootVars, feedbackVars, overlayVars,
                 gestureVars, editVars>>

\* mutation: a rejected deleteMemo is skipped and the loop goes on
TeardownMemoDeletedSkipsFailure(ok) ==
  /\ teardown.await = "deleteMemo"
  /\ LET n == Len(teardown.allMemos)
         progress == ProgressAfter(teardown.i, n)
     IN /\ remote' = (IF ok
                        THEN deleteMemo(remote,
                                        teardown.allMemos[teardown.i + 1].id)
                        ELSE remote)
        /\ IF LoopContinues(teardown.i + 1, n)
             THEN /\ deleteProgress' = progress
                  /\ percents' = Append(percents, progress)
                  /\ deleteStatusMessage' =
                       Message("deleting memos", teardown.i + 2, n)
                  /\ teardown' = [teardown EXCEPT !.i = teardown.i + 1]
                  /\ last' = <<"handleDeleteAccount", "memo deleted">>
             ELSE /\ TeardownDeletesUser(teardown.allMemos, <<progress>>)
                  /\ last' = <<"handleDeleteAccount", "memos deleted">>
        /\ UNCHANGED location
  /\ UNCHANGED <<nextId, storeVars, bootVars, feedbackVars, overlayVars,
                 gestureVars, editVars>>

\* mutation: a rejected deleteMemo restores the memos deleted before it
TeardownMemoDeletedRollsBack(ok) ==
  /\ teardown.await = "deleteMemo"
  /\ IF ~ok
       THEN /\ TeardownCaught(NoCode)
            /\ remote' = SubSeq(teardown.allMemos, 1, teardown.i) \o remote
       ELSE LET n == Len(teardown.allMemos)
                progress == ProgressAfter(teardown.i, n)
            IN /\ remote' = deleteMemo(remote,
                                       teardown.allMemos[teardown.i + 1].id)
               /\ IF LoopContinues(teardown.i + 1, n)
                    THEN /\ deleteProgress' = progress
                         /\ percents' = Append(percents, progress)
                         /\ deleteStatusMessage' =
                              Message("deleting memos", teardown.i + 2, n)
                         /\ teardown' = [teardown EXCEPT !.i = teardown.i + 1]
                         /\ last' = <<"handleDeleteAccount", "memo deleted">>
                    ELSE /\ TeardownDeletesUser(teardown.allMemos,
                                                <<progress>>)
                         /\ last' = <<"handleDeleteAccount", "memos deleted">>
               /\ UNCHANGED location
  /\ UNCHANGED <<nextId, storeVars, bootVars, feedbackVars, overlayVars,
                 gestureVars, editVars>>

\* deleteMemo of the loop settles; the next iteration starts or the loop ends
TeardownMemoDeleted(ok) ==
  /\ teardown.await = "deleteMemo"
  /\ IF ~ok
       THEN /\ TeardownCaught(NoCode)
            /\ UNCHANGED remote
       ELSE LET n == Len(teardown.allMemos)
                progress == ProgressAfter(teardown.i, n)
            IN /\ remote' = deleteMemo(remote,
                                       teardown.allMemos[teardown.i + 1].id)
               /\ IF LoopContinues(teardown.i + 1, n)
                    THEN /\ deleteProgress' = progress
                         /\ percents' = Append(percents, progress)
                         /\ deleteStatusMessage' =
                              Message("deleting memos", teardown.i + 2, n)
                         /\ teardown' = [teardown EXCEPT !.i = teardown.i + 1]
                         /\ last' = <<"handleDeleteAccount", "memo deleted">>
                    ELSE /\ TeardownDeletesUser(teardown.allMemos,
                                                <<progress>>)
                         /\ last' = <<"handleDeleteAccount", "memos deleted">>
               /\ UNCHANGED location
  /\ UNCHANGED <<nextId, storeVars, bootVars, feedbackVars, overlayVars,
                 gestureVars, editVars>>

\* deleteUser settles: code is "ok" or the code it rejects with
TeardownUserDeleted(code) ==
  /\ teardown.await = "deleteUser"
  /\ IF code = "ok"
       THEN /\ deleteProgress' = 100
            /\ deleteStatusMessage' = Message("completed", 0, 0)
            /\ percents' = Append(percents, 100)
            /\ teardown' = [teardown EXCEPT !.await = "timeout"]
            /\ last' = <<"handleDeleteAccount", "user deleted">>
            /\ UNCHANGED location
       ELSE TeardownCaught(code)
  /\ UNCHANGED <<repoVars, storeVars, bootVars, feedbackVars, overlayVars,
                 gestureVars, editVars>>

\* mutation: the pause ends and the run returns without navigate
TeardownReturns ==
  /\ teardown.await = "timeout"
  /\ teardown' = [teardown EXCEPT !.await = "done"]
  /\ last' = <<"handleDeleteAccount", "redirected">>
  /\ UNCHANGED <<location, deleteProgress, deleteStatusMessage, percents,
                 repoVars, storeVars, bootVars, feedbackVars, overlayVars,
                 gestureVars, editVars>>

\* the 800 ms pause ends: navigate('/login', { replace: true }), which
\* unmounts the page
TeardownRedirects ==
  /\ teardown.await = "timeout"
  /\ location' = "/login"
  /\ timers' = unmountCleanup(timers, debounceTimerRef)
  /\ teardown' = [teardown EXCEPT !.await = "done"]
  /\ last' = <<"handleDeleteAccount", "redirected">>
  /\ UNCHANGED <<deleteProgress, deleteStatusMessage, percents, repoVars,
                 storeVars, bootVars, feedbackVars, overlayVars, gestureVars,
                 debounceTimerRef, inflight, burst>>

Teardown ==
  \/ \E confirmed \in BOOLEAN : handleDeleteAccount(confirmed)
  \/ \E ok \in BOOLEAN : TeardownListed(ok)
  \/ \E ok \in BOOLEAN : TeardownMemoDeleted(ok)
  \/ \E code \in {"ok"} \cup DeleteUserCodes : TeardownUserDeleted(code)
  \/ TeardownRedirects

\* what the account-deletion runs need: the page, its menu, and deletes of
\* single memos, which can leave the repository without memos
Deleting ==
  \/ HeaderDelete
  \/ \E ok \in BOOLEAN : DeleteSettled(ok)
  \/ \E ok \in BOOLEAN : DeleteCreateSettled(ok)

\* the floating button and the settling of its createMemo call
Creating ==
  \/ createNewMemo
  \/ \E ok \in BOOLEAN : CreateSettled(ok)

Next == Bootstrap \/ Store \/ Navigation \/ Overlays

NextNav == Bootstrap \/ Navigation \/ Gestures \/ Overlays

NextEdit == Bootstrap \/ Editing \/ Arrows

Spec == Init /\ [][Next]_vars

SpecNav == Init /\ [][NextNav]_vars

\* the same page, with the history of the start events kept
NextGestures == Bootstrap \/ Navigation \/ GesturesRecorded \/ Overlays

SpecGestures == Init /\ [][NextGestures]_vars

\* every way the navigation controller moves (arrows, keys, touch, mouse)
\* with no overlay open, when every 600 ms timeout of handleIndexChange
\* fires
NextFeedback == Bootstrap \/ Navigation \/ Gestures

SpecFeedback == Init /\ [][NextFeedback]_vars /\ WF_vars(ClearDirection)

\* the page is loaded again: a new session starts from the repository as it
\* is, every state and ref is initial, timeouts and pending calls are gone
NewSession ==
  /\ boot = "done"
  /\ memos' = <<>>
  /\ byUpdatedAt' = <<>>
  /\ currentIndex' = 0
  /\ loading' = TRUE
  /\ boot' = "mount"
  /\ fetchedMemos' = <<>>
  /\ isOperating' = FALSE
  /\ op' = NoOp
  /\ swipeDirection' = NULL
  /\ clearTimers' = 0
  /\ isMenuOpen' = FALSE
  /\ isMemoListOpen' = FALSE
  /\ touchStartX' = 0
  /\ mouseStartX' = 0
  /\ isDragging' = FALSE
  /\ recorded' = NoGesture
  /\ debounceTimerRef' = NoTimer
  /\ timers' = {}
  /\ inflight' = <<>>
  /\ burst' = [NoBurst EXCEPT !.total = burst.total]
  /\ deleteProgress' = NoProgress
  /\ deleteStatusMessage' = NoMessage
  /\ teardown' = [NoTeardown EXCEPT !.earlier = teardown.earlier]
  /\ location' = "/"
  /\ percents' = <<>>
  /\ last' = <<"newSession", "done">>
  /\ UNCHANGED repoVars

NextTeardown == Bootstrap \/ Deleting \/ handleMenuClick \/ Teardown

SpecTeardown == Init /\ [][NextTeardown]_vars

\* what handleDeleteAccount awaits settles: getMemos, deleteMemo and
\* deleteUser resolve or reject, and the 800 ms timeout fires
TeardownSettles ==
  \/ \E ok \in BOOLEAN : TeardownListed(ok)
  \/ \E ok \in BOOLEAN : TeardownMemoDeleted(ok)
  \/ \E code \in {"ok"} \cup DeleteUserCodes : TeardownUserDeleted(code)
  \/ TeardownRedirects

\* the account-deletion runs when every awaited call settles
SpecTeardownFair == SpecTeardown /\ WF_vars(TeardownSettles)

\* sessions that start from at most MaxEditNotes stored notes
InitEdit == Init /\ Len(remote) <= MaxEditNotes

SpecEdit == InitEdit /\ [][NextEdit]_vars

NextSessions == Bootstrap \/ Editing \/ Arrows \/ NewSession

\* sessions one after the other on one repository
SpecSessions == InitEdit /\ [][NextSessions]_vars

\* accounts of up to MaxSagaNotes notes whose newest note is blank
SagaRemotes ==
  {<<>>} \cup UNION {{<<Memo(n, <<" ">>)>> \o r : r \in InitialRemotes(n - 1)}
                       : n \in 1..MaxSagaNotes}

InitSaga ==
  /\ remote \in SagaRemotes
  /\ nextId = Len(remote) + 1
  /\ SessionStart

NextSaga == Bootstrap \/ handleMenuClick \/ Teardown

\* account deletions, run again after a failure, with no other operation
SpecSaga == InitSaga /\ [][NextSaga]_vars

NextReruns == NextSaga \/ NewSession

\* account deletions run again after a failure, in the same session or in
\* a later one
SpecReruns == Init /\ [][NextReruns]_vars

NextUnmount == Bootstrap \/ Editing \/ Arrows \/ Unmount

\* an editing session up to its end
SpecUnmount == InitEdit /\ [][NextUnmount]_vars

\* edits and the firing of their timeouts, up to the call of updateMemo
Typing ==
  \/ \E newContent \in EditContents : handleMemoChange(newContent)
  \/ DebounceTimerFires

NextEditStore == Bootstrap \/ Typing \/ Creating \/ Deleting

\* an editing session in which notes are created and deleted as well
SpecEditStore == InitEdit /\ [][NextEditStore]_vars

\* updateMemo resolves
UpdateSaved == UpdateSettled(TRUE)

NextEditSaved == Bootstrap \/ Typing \/ UpdateSaved \/ Arrows

\* an editing session in which every remote update succeeds
SpecEditSaved == InitEdit /\ [][NextEditSaved]_vars

\* ------------------------------------------------------------------------
\* Properties
\* ------------------------------------------------------------------------
NavEvents == {"arrowPrevious", "arrowNext", "ArrowLeft", "ArrowRight",
              "touchEnd", "mouseUp"}

\* C1: once the list is non-empty, every create and delete, whether its
\* remote calls succeed or fail, leaves at least one note in the list.
C1_NeverEmptied == [][Len(memos) >= 1 => Len(memos') >= 1]_vars

\* a delete of the only note has completed and one note is held
C1_Witness ==
  /\ last \in {<<"deleteMemoByIndex", "replaced">>,
               <<"deleteMemoByIndex", "createMemo failed">>}
  /\ Len(memos) = 1
  /\ ~isOperating

\* C2: whenever the list is non-empty the active index is one of its
\* indexes, also while a create or delete is in flight and after it ends.
C2_IndexInRange ==
  Len(memos) > 0 => (0 <= currentIndex /\ currentIndex < Len(memos))

\* a delete settled after the user moved to the last note while it was
\* in flight: the held list is shorter than the one navigated in
C2_Witness ==
  /\ last = <<"deleteMemoByIndex", "done">>
  /\ Len(memos) >= 1
  /\ currentIndex = 0
  /\ swipeDirection = "right"

\* C3: once loadMemos has cleared the loading flag the list is non-empty,
\* whatever the outcome of its remote calls.
C3_BootstrappedNonEmpty ==
  (boot = "done" /\ ~loading) => Len(memos) >= 1

\* C4: a burst of edits of one note, each arriving while the timeout of
\* the previous one is pending, issues no remote update while a timeout
\* is pending and exactly one, with the content of the last edit, once
\* the timeout has fired.
C4_BurstWrittenOnce ==
  burst.edits >= 1 =>
    IF timers # {}
      THEN burst.issued = 0
      ELSE /\ burst.issued = 1
           /\ burst.sent = <<burst.id, burst.content>>

\* a burst of as many edits as one run makes has been written
C4_Witness ==
  /\ burst.edits = MaxEdits
  /\ timers = {}
  /\ burst.issued = 1

\* C5: navigation leaves the pending timeout and the issued updates as
\* they are, and a timeout that fires after the active note changed
\* addresses its update to the edited note with the edited content.
C5_WriteTargetsEditedNote ==
  [][/\ (Len(last') = 3 /\ last'[1] \in NavEvents)
          => (timers' = timers /\ inflight' = inflight)
     /\ (/\ Len(inflight') > Len(inflight)
         /\ HasCurrentMemo
         /\ currentMemo.id # burst.id)
          => inflight'[Len(inflight')]
               = [id |-> burst.id, content |-> burst.content]]_vars

\* the timeout fired while another note than the edited one was active
C5_Witness ==
  /\ last = <<"debounceTimer", "fired">>
  /\ HasCurrentMemo
  /\ currentMemo.id # burst.id
  /\ burst.sent = <<burst.id, burst.content>>

\* C6: at most one debounce timeout is scheduled at any time.
C6_OneTimer == Cardinality(timers) <= 1

\* an edit replaced the timeout of an earlier edit
C6_Witness ==
  /\ burst.edits >= 2
  /\ Cardinality(timers) = 1
  /\ last = <<"memoChange", "done">>

\* C7: a delete of the only note whose remote delete and remote create
\* both succeed leaves one blank note with an id the repository had not
\* assigned before, and the active index 0.
C7_LastNoteReplaced ==
  [][(/\ op.kind = "delete"
      /\ op.await = "createMemo"
      /\ Len(op.memos) = 1
      /\ nextId' = nextId + 1)
       => /\ Len(memos') = 1
          /\ memos'[1].content = Blank
          /\ memos'[1].id # op.memos[1].id
          /\ memos'[1].id >= nextId
          /\ Exists(remote', memos'[1].id)
          /\ ~Exists(remote', op.memos[1].id)
          /\ currentIndex' = 0]_vars

\* the only note was deleted and replaced
C7_Witness ==
  /\ last = <<"deleteMemoByIndex", "replaced">>
  /\ Len(memos) = 1
  /\ memos[1].content = Blank
  /\ currentIndex = 0

\* history: a call of deleteMemoByIndex returns true in this step
DeleteSucceeds ==
  /\ op.kind = "delete"
  /\ isOperating /\ ~isOperating'
  /\ last'[1] = "deleteMemoByIndex"
  /\ last'[2] \in {"done", "replaced"}

\* the list pre without the element at index (counted from 0)
IsListWithout(ms, pre, index) ==
  /\ Len(ms) = Len(pre) - 1
  /\ \A i \in 1..Len(pre) :
       /\ i < index + 1 => ms[i] = pre[i]
       /\ i > index + 1 => ms[i - 1] = pre[i]

\* C8 as stated: after every successful delete the active index is 0 and
\* the list is the list held at the call without the deleted note.
C8_DeleteRemovesAndResets ==
  [][DeleteSucceeds
       => /\ currentIndex' = 0
          /\ IsListWithout(memos', op.memos, op.index)]_vars

\* C8 amended: after every successful delete the active index is 0; the
\* list is the list held at the call without the deleted note when that
\* list had more than one note, and one new blank note when it had one.
C8_DeleteRemovesOrReplaces ==
  [][DeleteSucceeds
       => /\ currentIndex' = 0
          /\ IF Len(op.memos) > 1
               THEN IsListWithout(memos', op.memos, op.index)
               ELSE /\ Len(memos') = 1
                    /\ memos'[1].content = Blank]_vars

\* a note other than the first was deleted from a longer list
C8_Witness ==
  /\ last = <<"deleteMemoByIndex", "done">>
  /\ Len(memos) >= 2
  /\ currentIndex = 0
  /\ ~isOperating

\* C9: a request for the next note at the last index, or for the previous
\* note at index 0, changes neither the index nor the list nor the
\* direction feedback.
C9_NoWrapAround ==
  [][(/\ Len(last') = 3
      /\ \/ last'[2] = "next" /\ currentIndex = Len(memos) - 1
         \/ last'[2] = "previous" /\ currentIndex = 0)
       => UNCHANGED <<currentIndex, memos, swipeDirection, clearTimers>>]_vars

\* a key asked for the next note at the last index of a longer list
C9_Witness ==
  /\ last = <<"ArrowRight", "next", "ignored">>
  /\ ~Disabled
  /\ Len(memos) >= 2
  /\ currentIndex = Len(memos) - 1

\* C10: while the menu or the memo list is open, a touch end, mouse up,
\* arrow key or arrow button changes neither the index nor the direction
\* feedback.
C10_DisabledGatesAll ==
  [][(Disabled /\ Len(last') = 3 /\ last'[1] \in NavEvents)
       => UNCHANGED <<currentIndex, swipeDirection, clearTimers>>]_vars

\* a qualifying swipe ended while an overlay was open
C10_Witness ==
  /\ Disabled
  /\ last = <<"touchEnd", "next", "ignored">>
  /\ currentIndex < Len(memos) - 1

\* history: handleDeleteAccount is between its first await and its end
TeardownRuns == teardown.await \in {"getMemos", "deleteMemo", "deleteUser"}

\* history: this step is the catch block of handleDeleteAccount
TeardownFails == TeardownRuns /\ teardown'.await = "none"

\* C11: in every account deletion the values handed to setDeleteProgress
\* are within 0..100 and never decrease, and once deleteUser has succeeded
\* the last of them is 100.
C11_PercentsMonotone ==
  /\ \A k \in 1..Len(percents) : 0 <= percents[k] /\ percents[k] <= 100
  /\ \A k \in 1..(Len(percents) - 1) : percents[k] <= percents[k + 1]
  /\ deleteProgress # NoProgress =>
       (percents # <<>> /\ deleteProgress = percents[Len(percents)])
  /\ teardown.await \in {"timeout", "done"} =>
       percents[Len(percents)] = 100

\* an account with two memos or more was deleted and the login page shown
C11_Witness ==
  /\ teardown.await = "done"
  /\ location = "/login"
  /\ Len(teardown.allMemos) >= 2
  /\ Len(percents) = Len(teardown.allMemos) + 4

\* history: getMemos of handleDeleteAccount returns an empty list now
TeardownListsNothing ==
  /\ teardown.await = "getMemos"
  /\ teardown'.await # "getMemos"
  /\ teardown'.error = "none"
  /\ Len(teardown'.allMemos) = 0

C13_FailureClearsOverlay ==
  [][TeardownFails
       => /\ deleteProgress' = NoProgress
          /\ deleteStatusMessage' = NoMessage
          /\ location' = location
          /\ location' = "/"
          /\ teardown'.error # "none"
          /\ teardown'.alert \in {"reauth", "generic"}
          /\ teardown'.alert = "reauth"
               <=> (teardown.await = "deleteUser"
                    /\ teardown'.error = RequiresRecentLogin)]_vars

\* deleteUser asked for a recent login after the memos had been deleted
C13_Witness ==
  /\ last = <<"handleDeleteAccount", "failed">>
  /\ teardown.alert = "reauth"
  /\ deleteProgress = NoProgress
  /\ deleteStatusMessage = NoMessage
  /\ percents[Len(percents)] = 90

\* a note whose content trims to the empty string
IsBlank(memo) == Trim(memo.content) = Blank

\* C14: for every list getMemos returns to loadMemos: an empty list, or
\* one whose newest note is not blank, leads to one createMemo call and
\* to the new blank note followed by the fetched list; a list whose newest
\* note is blank leads to no createMemo call and to the fetched list; the
\* index is 0 in every case.
C14_BootstrapByNewest ==
  [][/\ (/\ boot = "getMemos"
         /\ boot' # "getMemos"
         /\ last' # <<"loadMemos", "getMemos failed">>)
          => /\ nextId' = nextId
             /\ IF remote = <<>> \/ ~IsBlank(remote[1])
                  THEN boot' = "createMemo" /\ fetchedMemos' = remote
                  ELSE /\ boot' = "done"
                       /\ memos' = remote
                       /\ currentIndex' = 0
     /\ (boot = "createMemo" /\ boot' = "done")
          => /\ nextId' = nextId + 1
             /\ memos' = <<Memo(nextId, Blank)>> \o fetchedMemos
             /\ Exists(remote', nextId)
             /\ currentIndex' = 0]_vars

\* the number of blank notes among the first k notes of a list
RECURSIVE BlankCount(_, _)
BlankCount(ms, k) ==
  IF k = 0 THEN 0
  ELSE BlankCount(ms, k - 1) + (IF IsBlank(ms[k]) THEN 1 ELSE 0)

\* C15: over sessions of a bootstrap followed by edits of existing notes,
\* a repository that holds at most one blank note never comes to hold more
\* than one.
C15_BlanksDoNotAccumulate ==
  [][BlankCount(remote, Len(remote)) <= 1
       => BlankCount(remote', Len(remote')) <= 1]_vars

\* history: this step is a call of createNewMemo or of deleteMemoByIndex
StoreRequested ==
  /\ last'[1] \in {"createNewMemo", "deleteMemoByIndex"}
  /\ last'[2] \in {"called", "rejected"}

\* C16: a create or delete requested while the remote call of another is
\* outstanding is rejected: it starts no remote call and leaves the list,
\* the index and the operation in flight as they are; the guard is set
\* exactly while one operation is in flight.
C16_OneOperationAtATime ==
  [][/\ isOperating <=> op.kind # "none"
     /\ (isOperating /\ StoreRequested)
          => /\ last'[2] = "rejected"
             /\ UNCHANGED <<memos, currentIndex, remote, nextId, op,
                            isOperating>>
     /\ (~isOperating /\ StoreRequested)
          => /\ last'[2] = "called"
             /\ isOperating'
             /\ op'.kind = (IF last'[1] = "createNewMemo"
                              THEN "create" ELSE "delete")]_vars

\* a create was requested while the remote delete of a note was outstanding
C16_Witness ==
  /\ last = <<"createNewMemo", "rejected">>
  /\ isOperating
  /\ op.kind = "delete"
  /\ op.await = "deleteMemo"

\* history: createNewMemo returns true in this step
CreateSucceeds ==
  /\ op.kind = "create"
  /\ op'.kind = "none"
  /\ nextId' = nextId + 1

\* history: createNewMemo returns false in this step, after its remote call
CreateFails ==
  /\ op.kind = "create"
  /\ op'.kind = "none"
  /\ nextId' = nextId

\* history: deleteMemoByIndex returns false in this step, after a remote call
DeleteFails ==
  /\ op.kind = "delete"
  /\ op'.kind = "none"
  /\ ~DeleteSucceeds

\* C17: after a successful createNewMemo the list is the new blank note,
\* with the id the repository assigned, followed by the notes held at the
\* call in their order, and the index is 0 whatever it was.
C17_CreatePrepends ==
  [][CreateSucceeds
       => /\ memos' = <<Memo(nextId, Blank)>> \o op.memos
          /\ Len(memos') = Len(memos) + 1
          /\ \A k \in 1..Len(op.memos) : op.memos[k].id # nextId
          /\ Exists(remote', nextId)
          /\ currentIndex' = 0]_vars

\* a note was created while a note other than the first was active
C17_Witness ==
  /\ last = <<"createNewMemo", "done">>
  /\ swipeDirection = "right"
  /\ currentIndex = 0
  /\ Len(memos) >= 3
  /\ memos[1].content = Blank

\* C18: when the createMemo call of createNewMemo rejects, the list and
\* the index stay as they are, false is returned and the guard is released:
\* the next create or delete request is accepted.
C18_CreateFailureKeepsList ==
  [][/\ CreateFails
          => /\ UNCHANGED <<memos, currentIndex, remote>>
             /\ memos' = op.memos
             /\ ~isOperating'
             /\ last' = <<"createNewMemo", "createMemo failed">>
     /\ (last = <<"createNewMemo", "createMemo failed">> /\ StoreRequested)
          => (last'[2] = "called" /\ isOperating')]_vars

\* a create failed while a note other than the first was active: the index
\* and the list are kept and the guard is released
C18_Witness ==
  /\ last = <<"createNewMemo", "createMemo failed">>
  /\ ~isOperating
  /\ op = NoOp
  /\ Len(memos) >= 2
  /\ currentIndex >= 1

\* C19: when deleteMemoByIndex fails, at its deleteMemo call or at the
\* createMemo call for an emptied list, the list and the index stay as
\* they are and the guard is released: the next create or delete request
\* is accepted.
C19_DeleteFailureKeepsList ==
  [][/\ DeleteFails
          => /\ UNCHANGED <<memos, currentIndex>>
             /\ memos' = op.memos
             /\ ~isOperating'
             /\ last'[2] \in {"deleteMemo failed", "createMemo failed"}
     /\ (/\ last[1] = "deleteMemoByIndex"
         /\ last[2] \in {"deleteMemo failed", "createMemo failed"}
         /\ StoreRequested)
          => (last'[2] = "called" /\ isOperating')]_vars

\* the createMemo call for the emptied list failed: the note the call was
\* for is still in the list
C19_Witness ==
  /\ last = <<"deleteMemoByIndex", "createMemo failed">>
  /\ ~isOperating
  /\ Len(memos) = 1
  /\ currentIndex = 0

\* C20: whenever deleteMemoByIndex fails the note it was called for is
\* still in the repository, and so is every note of the list.
C20_FailedDeleteDeletesNothing ==
  [][DeleteFails
       => /\ Exists(remote', op.memos[op.index + 1].id)
          /\ \A k \in 1..Len(memos') : Exists(remote', memos'[k].id)]_vars

\* C21: when the page is unmounted while a debounce timeout is scheduled,
\* the timeout is cancelled without being fired, and from then on no
\* timeout is scheduled and no remote update is issued.
C21_UnmountCancelsTimer ==
  [][/\ (location = "/" /\ location' # "/")
          => /\ timers' = {}
             /\ inflight' = inflight
             /\ remote' = remote
             /\ burst'.issued = burst.issued
     /\ location # "/"
          => /\ timers' = {}
             /\ Len(inflight') <= Len(inflight)
             /\ burst'.issued = burst.issued]_vars

\* the page was unmounted while the timeout of an edit was scheduled: the
\* timeout is gone and the edit was never sent
C21_Witness ==
  /\ last = <<"unmount", "done">>
  /\ location # "/"
  /\ debounceTimerRef # NoTimer
  /\ burst.edits >= 1
  /\ burst.issued = 0
  /\ timers = {}
  /\ inflight = <<>>

\* C22: at most one remote update call for a note is outstanding at any
\* time, also when an edit arrives while the update of an earlier timeout
\* is still awaiting the repository.
C22_OneUpdatePerNote ==
  \A i, j \in 1..Len(inflight) :
    i # j => inflight[i].id # inflight[j].id

\* C23: whenever a debounce timeout fires, the content its remote update
\* carries is the content the list holds for the note the update is
\* addressed to, whatever edits, navigation, creates and deletes happened
\* since the timeout was scheduled.
C23_UpdateCarriesLocalContent ==
  [][Len(inflight') > Len(inflight)
       => \E k \in 1..Len(memos) :
            /\ memos[k].id = inflight'[Len(inflight')].id
            /\ memos[k].content = inflight'[Len(inflight')].content]_vars

\* history: this step is a call of handleMemoChange
MemoChanged == burst'.total = burst.total + 1

\* C24: when handleMemoChange(newContent) returns, the note at the active
\* index holds newContent, every other note is as it was, the ids, the
\* order, the length of the list and the active index are unchanged, and
\* no remote update has been issued.
C24_EditReplacesActiveContent ==
  [][MemoChanged
       => /\ Len(memos') = Len(memos)
          /\ currentIndex' = currentIndex
          /\ burst'.content \in EditContents
          /\ \A k \in 1..Len(memos) :
               /\ memos'[k].id = memos[k].id
               /\ memos'[k].content = (IF k = currentIndex + 1
                                         THEN burst'.content
                                         ELSE memos[k].content)
          /\ inflight' = inflight
          /\ remote' = remote]_vars

\* a note other than the first was edited and the first one kept its content
C24_Witness ==
  /\ last = <<"memoChange", "done">>
  /\ currentIndex >= 1
  /\ HasCurrentMemo
  /\ currentMemo.content = <<"a", "b">>
  /\ memos[1].content = Blank
  /\ inflight = <<>>

\* history: in this step an updateMemo call rejects and the callback's
\* catch block runs
UpdateFails == last' = <<"updateMemo", "failed">>

TeardownSteps == teardown' # teardown

\* the notes k..m of the listing are not in the repository r
Deleted(r, all, k, m) == \A j \in k..m : ~Exists(r, all[j].id)

\* C26: in every account deletion the memos are deleted one at a time in
\* the order of the listing, deleteUser is called only when every listed
\* memo has been deleted, and when getMemos or a deleteMemo fails no
\* further memo and no user is deleted.
C26_DeletesInListOrder ==
  [][/\ (teardown.await = "getMemos" /\ TeardownSteps)
          => /\ remote' = remote
             /\ IF teardown'.error # "none"
                  THEN teardown'.await = "none"
                  ELSE /\ teardown'.allMemos = remote
                       /\ teardown'.await =
                            (IF remote = <<>> THEN "deleteUser"
                                              ELSE "deleteMemo")
                       /\ teardown'.i = 0
     /\ (teardown.await = "deleteMemo" /\ TeardownSteps)
          => LET all == teardown.allMemos
                 n == Len(all)
                 i == teardown.i
             IN /\ i < n
                /\ Deleted(remote, all, 1, i)
                /\ IF teardown'.error # "none"
                     THEN /\ teardown'.await = "none"
                          /\ remote' = remote
                     ELSE /\ Deleted(remote', all, 1, i + 1)
                          /\ \A j \in (i + 2)..n :
                               Exists(remote, all[j].id)
                                 => Exists(remote', all[j].id)
                          /\ Len(remote) - Len(remote') <= 1
                          /\ IF i + 1 < n
                               THEN /\ teardown'.await = "deleteMemo"
                                    /\ teardown'.i = i + 1
                               ELSE teardown'.await = "deleteUser"
     /\ teardown.await = "deleteUser"
          => Deleted(remote, teardown.allMemos, 1, Len(teardown.allMemos))
     /\ (teardown.await \in {"none", "deleteUser", "timeout", "done"}
         /\ TeardownSteps)
          => remote' = remote]_vars

\* the second of two listed memos could not be deleted: the first is
\* deleted, the second is not, and the account deletion has ended
C26_Witness ==
  /\ last = <<"handleDeleteAccount", "failed">>
  /\ teardown.await = "none"
  /\ teardown.error = NoCode
  /\ percents = <<0, 10, 45>>
  /\ Len(remote) = 1

\* history: in this step a deleteMemo of the account deletion succeeds
TeardownDeletesMemo ==
  /\ teardown.await = "deleteMemo"
  /\ TeardownSteps
  /\ teardown'.await \in {"deleteMemo", "deleteUser"}

Range(q) == {q[k] : k \in 1..Len(q)}

\* history: getMemos of handleDeleteAccount returns a list in this step
TeardownLists ==
  /\ teardown.await = "getMemos"
  /\ teardown'.await \in {"deleteMemo", "deleteUser"}

TeardownInProgress ==
  teardown.await \in {"getMemos", "deleteMemo", "deleteUser", "timeout"}

\* the run returned after navigate: 100 was the last percent it set and
\* the login screen is shown
TeardownDone ==
  /\ teardown.await = "done"
  /\ teardown.error = "none"
  /\ deleteProgress = 100
  /\ percents[Len(percents)] = 100
  /\ location = "/login"

\* the run returned from its catch block: the overlay is hidden and the
\* page is still shown
TeardownErrored ==
  /\ teardown.await = "none"
  /\ teardown.error # "none"
  /\ deleteProgress = NoProgress
  /\ location = "/"

\* C29: when every remote call settles, a confirmed run of
\* handleDeleteAccount leaves its in-progress phases and ends either done
\* (100, then the redirect) or errored (deleteProgress null, no redirect);
\* a done run never becomes errored, and an errored run stays errored
\* until handleDeleteAccount is confirmed again
C29_RunEndsOneWay ==
  /\ TeardownInProgress ~> (TeardownDone \/ TeardownErrored)
  /\ [][/\ TeardownDone => TeardownDone'
        /\ TeardownErrored =>
             (TeardownErrored' \/ teardown'.await = "getMemos")
        /\ (TeardownInProgress /\ ~TeardownInProgress') =>
             (TeardownDone' \/ TeardownErrored')]_vars

\* a run that deleted two memos and the user has redirected
C29_Witness ==
  /\ TeardownDone
  /\ Len(teardown.allMemos) = 2
  /\ remote = <<>>
  /\ last = <<"handleDeleteAccount", "redirected">>

\* ---- C30 ----

\* a step of goToPrevious or goToNext that called onIndexChange
NavigatorMoves == Len(last') = 3 /\ last'[3] = "moved"

\* a step of the timeout callback of handleIndexChange
DirectionCleared == last' = <<"clearDirection", "done">>

\* C30: a move of the navigation controller changes the index and sets
\* swipeDirection to 'right' when the index increased and to 'left' when
\* it decreased; nothing else sets a direction; the clearing step sets
\* null and leaves currentIndex and memos unchanged; and a direction that
\* is set is followed by null, so that it is null once navigation stops
C30_DirectionSetThenCleared ==
  /\ [][/\ NavigatorMoves =>
             /\ currentIndex' # currentIndex
             /\ (currentIndex' > currentIndex) => (swipeDirection' = "right")
             /\ (currentIndex' < currentIndex) => (swipeDirection' = "left")
        /\ DirectionCleared =>
             /\ swipeDirection' = NULL
             /\ UNCHANGED <<currentIndex, memos>>
        /\ (swipeDirection' # swipeDirection /\ swipeDirection' # NULL) =>
             NavigatorMoves]_vars
  /\ [](swipeDirection # NULL => clearTimers > 0)
  /\ (swipeDirection # NULL) ~> (swipeDirection = NULL)

\* a move back to the first note, its timeout pending
C30_Witness ==
  /\ Len(last) = 3 /\ last[3] = "moved"
  /\ swipeDirection = "left"
  /\ clearTimers = 1
  /\ currentIndex = 0
  /\ Len(memos) = 2

\* ---- C31 ----

\* what a release with displacement dx does to the index
SwipeEffect(dx) ==
  LET back == dx > 50 /\ currentIndex > 0
      forth == dx < -50 /\ currentIndex < Len(memos) - 1
  IN /\ (currentIndex' # currentIndex) <=> (back \/ forth)
     /\ back => currentIndex' = currentIndex - 1
     /\ forth => currentIndex' = currentIndex + 1
     /\ (-50 <= dx /\ dx <= 50) =>
          UNCHANGED <<currentIndex, swipeDirection, clearTimers>>
     /\ UNCHANGED memos

\* C31: with no overlay open, a touch end, or a mouse up that ends a drag,
\* at displacement dx = endX - startX changes the index exactly when
\* |dx| > 50 and the neighbour exists: by one toward index 0 for dx > 50,
\* by one toward the last index for dx < -50; |dx| <= 50, 50 included,
\* changes nothing
C31_SwipeThreshold ==
  [][~Disabled =>
       /\ \A x \in Xs : handleTouchEnd(x) => SwipeEffect(x - touchStartX)
       /\ \A x \in Xs : (isDragging /\ handleMouseUp(x))
                          => SwipeEffect(x - mouseStartX)]_vars

\* a drag that started at 101 was released to the left of it and moved to
\* the next note
C31_Witness ==
  /\ last = <<"mouseUp", "next", "moved">>
  /\ mouseStartX = 101
  /\ ~isDragging
  /\ currentIndex = 1
  /\ ~Disabled

\* ---- C32 ----

\* C32: a mouse leave ends the drag; only a mouse down that is not ignored
\* starts one; and a mouse up with no drag in progress changes neither the
\* index nor the direction feedback, whatever its X coordinate
C32_LeaveEndsDrag ==
  [][/\ (last' = <<"mouseLeave", "done">>) => ~isDragging'
     /\ (~isDragging /\ isDragging') => (last' = <<"mouseDown", "done">>)
     /\ ~isDragging =>
          \A x \in Xs : handleMouseUp(x) =>
            /\ UNCHANGED <<currentIndex, swipeDirection, clearTimers, memos>>
            /\ ~isDragging']_vars

\* after a mouse down at 101 and a mouse leave, a mouse up far to the left
\* of it, with a next note and no overlay, was ignored
C32_Witness ==
  /\ last = <<"mouseUp", "next", "ignored">>
  /\ mouseStartX = 101
  /\ ~Disabled
  /\ ~isDragging
  /\ currentIndex < Len(memos) - 1
  /\ swipeDirection = NULL

\* ---- C33 ----

\* C33: once loadMemos has ended, the list is in the order of its
\* updated_at fields, newest first, after every create, delete, navigation
\* and edit, also after an edit of a memo that is not at index 0
C33_NewestFirst ==
  (boot = "done" /\ ~loading) => (byUpdatedAt = Ids(memos))

\* ---- C34 ----

\* the content the repository holds for a note, Blank if it holds none
RemoteContent(id) ==
  LET ds == SelectSeq(remote, LAMBDA d : d.id = id)
  IN IF ds = <<>> THEN Blank ELSE ds[1].content

\* no timeout is scheduled and no update is outstanding: nothing is written
\* until the next edit
Quiet == boot = "done" /\ timers = {} /\ inflight = <<>>

\* C34: in a session that stays mounted and whose updates all succeed,
\* once the edits have stopped and every timeout and update has run, the
\* repository holds for every held note the content the list holds, also
\* when one note was edited, then another before the timeout of the first
\* had fired
C34_EditsReachRepository ==
  Quiet => \A k \in 1..Len(memos) :
             RemoteContent(memos[k].id) = memos[k].content

\* ---- C35 ----

\* C35: every remote update that is issued is addressed to a note the
\* repository holds: none is issued for a note that a deleteMemo has
\* removed, so a timeout pending for a note when it is deleted issues no
\* update
C35_NoUpdateAfterDelete ==
  [][Len(inflight') > Len(inflight)
       => Exists(remote, inflight'[Len(inflight')].id)]_vars

\* ---- C36 ----

\* history: createNewMemo or deleteMemoByIndex returns in this step
StoreCompletes == op.kind # "none" /\ op'.kind = "none"

\* C36: when createNewMemo or deleteMemoByIndex returns, every note that
\* is in the list before and after holds the content it held just before,
\* so an edit made while the remote call was outstanding is kept
C36_CompletionKeepsEdits ==
  [][StoreCompletes
       => \A k \in 1..Len(memos') : \A j \in 1..Len(memos) :
            (memos'[k].id = memos[j].id)
              => (memos'[k].content = memos[j].content)]_vars

\* ---- C37 ----

\* history: the start event of this kind of gesture was ignored, or a
\* release has used it already
NoOwnStart(status) == status = "spent"

\* C37: a touch end or a mouse up whose start event was ignored, or whose
\* start was used by an earlier release, leaves the index as it is,
\* whatever overlays were opened and closed in between
C37_ReleaseNeedsOwnStart ==
  [][/\ (NoOwnStart(recorded.touch) /\ \E x \in Xs : handleTouchEnd(x))
          => currentIndex' = currentIndex
     /\ (NoOwnStart(recorded.mouse) /\ \E x \in Xs : handleMouseUp(x))
          => currentIndex' = currentIndex]_vars

\* ---- C38 ----
\* C38: a direction cue is not cleared before the timeout of the navigation
\* that set it fires: the timeouts all wait 600 ms and fire in the order
\* they were set, so while a timeout is pending the newest navigation's is
\* among them and the cue is still set
C38_CueLastsItsOwnTimeout == clearTimers > 0 => swipeDirection # NULL
====
